---- MODULE Spec2Model ----
(***************************************************************************)
(* Model of plot_generator.py: the module load (random seed, catalog),     *)
(* get_plot_count, generate_plot and the driver loop generate_plots.       *)
(*                                                                         *)
(* A string is a sequence of one-character strings.  The process-wide      *)
(* numpy generator is a pair (stream, pos): the stream its seeding         *)
(* selected and the number of values drawn from it so far; a dataset is    *)
(* identified by the stream and the positions it was drawn from.           *)
(***************************************************************************)
EXTENDS Integers, Sequences, FiniteSets, TLC

VARIABLES pc, args, num_plots, i, fig, ret, config,
          rng, seeds, datasets, twin, sink, out

vars == <<pc, args, num_plots, i, fig, ret, config,
          rng, seeds, datasets, twin, sink, out>>

(* ------------------------------ bounds --------------------------------- *)

\* largest explicit num_plots argument, and largest resolved count a run is followed for
MaxPlots == 25
\* largest index of a direct generate_plot call
MaxIndex == 2
\* longest PLOT_COUNT value
MaxEnvLen == 2

(* --------------------------- module load ------------------------------- *)

\* np.random.seed(42)
SEED == 42

\* streams the generator may be on before it is seeded (OS entropy)
Entropy == {7, 11}

seed_skipped(g, s) == g

seed(g, s) == [stream |-> s, pos |-> 0]

\* n values drawn from the generator
Draw(g, n) == [g EXCEPT !.pos = @ + n]

PLOT_TYPES_with_unknown ==
    << "scatter", "line", "bar", "histogram", "box",
       "heatmap", "pie", "violin", "area", "treemap" >>

PLOT_TYPES ==
    << "scatter", "line", "bar", "histogram", "box",
       "heatmap", "pie", "violin", "area", "funnel" >>

(* ------------------------- get_plot_count ------------------------------ *)

Digits == {"0", "1", "2", "3", "4", "5", "6", "7", "8", "9"}

DigitVal ==
    ("0" :> 0) @@ ("1" :> 1) @@ ("2" :> 2) @@ ("3" :> 3) @@ ("4" :> 4) @@
    ("5" :> 5) @@ ("6" :> 6) @@ ("7" :> 7) @@ ("8" :> 8) @@ ("9" :> 9)

DigitChar == [d \in 0..9 |-> CHOOSE c \in Digits : DigitVal[c] = d]

Whitespace == {" "}

RECURSIVE LStrip(_)
LStrip(s) ==
    IF s # <<>> /\ Head(s) \in Whitespace THEN LStrip(Tail(s)) ELSE s

RECURSIVE RStrip(_)
RStrip(s) ==
    IF s # <<>> /\ s[Len(s)] \in Whitespace
    THEN RStrip(SubSeq(s, 1, Len(s) - 1))
    ELSE s

\* the digits of a literal: non-empty, digits with single underscores between them
ValidDigits(d) ==
    /\ d # <<>>
    /\ \A k \in 1..Len(d) : d[k] \in Digits \cup {"_"}
    /\ d[1] # "_"
    /\ d[Len(d)] # "_"
    /\ \A k \in 1..(Len(d) - 1) : ~(d[k] = "_" /\ d[k + 1] = "_")

RECURSIVE DigitsValue(_, _)
DigitsValue(d, acc) ==
    IF d = <<>> THEN acc
    ELSE IF Head(d) = "_" THEN DigitsValue(Tail(d), acc)
    ELSE DigitsValue(Tail(d), 10 * acc + DigitVal[Head(d)])

\* Python's int(s) on a string: [ok, value]; ok = FALSE is its ValueError
int(s) ==
    LET t == RStrip(LStrip(s))
        signed == t # <<>> /\ t[1] \in {"+", "-"}
        d == IF signed THEN Tail(t) ELSE t
        m == DigitsValue(d, 0)
    IN  IF ValidDigits(d)
        THEN [ok |-> TRUE, value |-> IF signed /\ t[1] = "-" THEN 0 - m ELSE m]
        ELSE [ok |-> FALSE, value |-> 0]

RECURSIVE NatToStr(_)
NatToStr(n) ==
    IF n < 10 THEN <<DigitChar[n]>>
    ELSE Append(NatToStr(n \div 10), DigitChar[n % 10])

\* Python's str(n) of an integer: its base-10 string
str(n) == IF n < 0 THEN <<"-">> \o NatToStr(0 - n) ELSE NatToStr(n)

\* the PLOT_COUNT entry of the process environment: unset, or a string
Absent == [set |-> FALSE, value |-> <<>>]

EnvAlphabet == {"0", "2", "7", "-", "+", " ", "_", "x"}

RECURSIVE StringsOfLen(_)
StringsOfLen(n) ==
    IF n = 0 THEN {<<>>}
    ELSE {Append(s, c) : s \in StringsOfLen(n - 1), c \in EnvAlphabet}

Environs ==
    {Absent} \cup
    {[set |-> TRUE, value |-> s] : s \in UNION {StringsOfLen(n) : n \in 0..MaxEnvLen}}

\* os.getenv(name, default)
getenv(env, default) == IF env.set THEN env.value ELSE default

PLOT_COUNT_DEFAULT_2 == <<"2">>

\* the default handed to os.getenv
PLOT_COUNT_DEFAULT == <<"4">>

get_plot_count(env) == int(getenv(env, PLOT_COUNT_DEFAULT))

(* --------------------------- generate_plot ----------------------------- *)

\* product of a dataset's dimensions: the number of values it holds
RECURSIVE Size(_)
Size(shape) == IF shape = <<>> THEN 1 ELSE Head(shape) * Size(Tail(shape))

RECURSIVE TotalSize(_)
TotalSize(series) ==
    IF series = <<>> THEN 0 ELSE Size(Head(series).shape) + TotalSize(Tail(series))

RECURSIVE TotalDraws(_)
TotalDraws(series) ==
    IF series = <<>> THEN 0 ELSE Head(series).draws + TotalDraws(Tail(series))

\* one generated series: the shape of its data, the random values drawn for
\* it, and the grid cell it is added to (row = col = 0: the single canvas)
Series(shape, draws, cell) ==
    [shape |-> shape, draws |-> draws, row |-> cell[1], col |-> cell[2]]

NoCell == <<0, 0>>

SubplotCell_swapped(subplot_idx) == <<(subplot_idx % 2) + 1, (subplot_idx \div 2) + 1>>

\* row, col = (k // 2) + 1, (k % 2) + 1
SubplotCell(subplot_idx) == <<(subplot_idx \div 2) + 1, (subplot_idx % 2) + 1>>

\* layout chosen at the top of generate_plot
Layout(plot_type) ==
    IF plot_type \in {"scatter", "line", "bar"} THEN "grid" ELSE "single"

Figure(plot_type, index, volume, series) ==
    [type   |-> plot_type,
     layout |-> Layout(plot_type),
     title  |-> [number |-> index + 1, volume |-> volume],
     series |-> series]

NoFigure == [type |-> "none", layout |-> "none",
             title |-> [number |-> 0, volume |-> 0], series |-> <<>>]

\* x, y and colors of 1000 points each; subplot_idx = i % 4
scatter_fig(index) ==
    Figure("scatter", index, 50000,
           [k \in 1..50 |->
               LET n_points == 1000
                   subplot_idx == (k - 1) % 4
               IN  Series(<<n_points>>, 3 * n_points, SubplotCell(subplot_idx))])

line_fig(index) ==
    Figure("line", index, 8000,
           [k \in 1..4 |-> Series(<<2000>>, 2000, SubplotCell(k - 1))])

bar_fig(index) ==
    Figure("bar", index, 200,
           [k \in 1..4 |-> Series(<<50>>, 50, SubplotCell(k - 1))])

histogram_fig_two(index) ==
    Figure("histogram", index, 6000,
           [k \in 1..2 |-> Series(<<2000>>, 2000, NoCell)])

histogram_fig(index) ==
    Figure("histogram", index, 6000,
           [k \in 1..3 |-> Series(<<2000>>, 2000, NoCell)])

\* per category: one uniform draw for the mean, then 200 normal samples
box_fig(index) ==
    Figure("box", index, 4000,
           [k \in 1..20 |-> Series(<<200>>, 1 + 200, NoCell)])

heatmap_fig(index) ==
    Figure("heatmap", index, 10000,
           << Series(<<100, 100>>, 100 * 100, NoCell) >>)

pie_fig(index) ==
    Figure("pie", index, 25, << Series(<<25>>, 25, NoCell) >>)

violin_fig(index) ==
    Figure("violin", index, 5000,
           [k \in 1..5 |-> Series(<<1000>>, 1000, NoCell)])

area_fig(index) ==
    Figure("area", index, 2500,
           [k \in 1..5 |-> Series(<<500>>, 500, NoCell)])

funnel_fig(index) ==
    Figure("funnel", index, 15, << Series(<<15>>, 15, NoCell) >>)

\* a completed call: the figure returned and the generator after its draws
Returned(f, g) ==
    [raised |-> FALSE, fig |-> f,
     data |-> [stream |-> g.stream, from |-> g.pos, n |-> TotalDraws(f.series)],
     rng |-> Draw(g, TotalDraws(f.series))]

UnknownPlotType_swallowed(plot_type, index, g) ==
    Returned(Figure(plot_type, index, 0, <<>>), g)

\* raise ValueError(f"Unknown plot type: {plot_type}")
UnknownPlotType(plot_type, index, g) ==
    [raised |-> TRUE, fig |-> NoFigure,
     data |-> [stream |-> g.stream, from |-> g.pos, n |-> 0],
     rng |-> g]

\* generate_plot(plot_type, index) on generator g
generate_plot(plot_type, index, g) ==
    IF plot_type = "scatter" THEN Returned(scatter_fig(index), g)
    ELSE IF plot_type = "line" THEN Returned(line_fig(index), g)
    ELSE IF plot_type = "bar" THEN Returned(bar_fig(index), g)
    ELSE IF plot_type = "histogram" THEN Returned(histogram_fig(index), g)
    ELSE IF plot_type = "box" THEN Returned(box_fig(index), g)
    ELSE IF plot_type = "heatmap" THEN Returned(heatmap_fig(index), g)
    ELSE IF plot_type = "pie" THEN Returned(pie_fig(index), g)
    ELSE IF plot_type = "violin" THEN Returned(violin_fig(index), g)
    ELSE IF plot_type = "area" THEN Returned(area_fig(index), g)
    ELSE IF plot_type = "funnel" THEN Returned(funnel_fig(index), g)
    ELSE UnknownPlotType(plot_type, index, g)

(* ------------------------------ state ---------------------------------- *)

NoArgs == [op |-> "none", plot_type |-> "", index |-> 0,
           given |-> FALSE, show_progress |-> FALSE]

NoReturn == [kind |-> "none", value |-> 0]

Unread == [set |-> FALSE, value |-> <<"unread">>]

\* tags a direct generate_plot call is tried with, beside the catalog's
OtherTags == {"not-a-real-type", "Scatter", ""}

Range(s) == {s[k] : k \in 1..Len(s)}

Init ==
    /\ pc = "unloaded"
    /\ args = NoArgs
    /\ num_plots = 0
    /\ i = 0
    /\ fig = NoFigure
    /\ ret = NoReturn
    /\ config = Unread
    /\ rng \in {[stream |-> e, pos |-> 0] : e \in Entropy}
    /\ seeds = 0
    /\ datasets = <<>>
    /\ twin \in {[rng |-> [stream |-> e, pos |-> 0], datasets |-> <<>>] : e \in Entropy}
    /\ sink = <<>>
    /\ out = <<>>

\* importing the module: the seed is set, the catalog defined
Load ==
    /\ pc = "unloaded"
    /\ pc' = "idle"
    /\ rng' = seed(rng, SEED)
    /\ twin' = [twin EXCEPT !.rng = seed(twin.rng, SEED)]
    /\ seeds' = seeds + 1
    /\ UNCHANGED <<args, num_plots, i, fig, ret, config, datasets, sink, out>>

\* a direct call of get_plot_count() under some environment
CallGetPlotCount ==
    /\ pc = "idle"
    /\ \E env \in Environs :
         LET r == get_plot_count(env)
         IN  /\ config' = env
             /\ args' = [NoArgs EXCEPT !.op = "get_plot_count"]
             /\ ret' = IF r.ok THEN [kind |-> "int", value |-> r.value]
                               ELSE [kind |-> "InvalidLiteral", value |-> 0]
             /\ pc' = IF r.ok THEN "returned" ELSE "raised"
    /\ UNCHANGED <<num_plots, i, fig, rng, seeds, datasets, twin, sink, out>>

\* a direct call of generate_plot(plot_type, index)
CallGeneratePlot ==
    /\ pc = "idle"
    /\ \E plot_type \in Range(PLOT_TYPES) \cup OtherTags, index \in 0..MaxIndex :
         LET r == generate_plot(plot_type, index, rng)
             t == generate_plot(plot_type, index, twin.rng)
         IN  /\ args' = [NoArgs EXCEPT !.op = "generate_plot",
                                       !.plot_type = plot_type, !.index = index]
             /\ fig' = r.fig
             /\ rng' = r.rng
             /\ datasets' = IF r.raised THEN datasets ELSE Append(datasets, r.data)
             /\ twin' = IF t.raised THEN twin
                        ELSE [rng |-> t.rng, datasets |-> Append(twin.datasets, t.data)]
             /\ ret' = IF r.raised THEN [kind |-> "UnknownPlotType", value |-> 0]
                                   ELSE [kind |-> "figure", value |-> 0]
             /\ pc' = IF r.raised THEN "raised" ELSE "returned"
    /\ UNCHANGED <<num_plots, i, config, seeds, sink, out>>

(* --------------------------- generate_plots ---------------------------- *)

PlotTypeAt_shifted(k) == PLOT_TYPES[((k + 1) % Len(PLOT_TYPES)) + 1]

\* plot_type = PLOT_TYPES[i % len(PLOT_TYPES)]
PlotTypeAt(k) == PLOT_TYPES[(k % Len(PLOT_TYPES)) + 1]

ProgressDue_zero_based(show_progress, k) == show_progress /\ k % 10 = 0

\* show_progress and (i + 1) % 10 == 0
ProgressDue(show_progress, k) == show_progress /\ (k + 1) % 10 = 0

\* generate_plots(n, show_progress): num_plots is given and kept
CallGeneratePlotsGiven ==
    /\ pc = "idle"
    /\ \E n \in 0..MaxPlots, show_progress \in BOOLEAN :
         /\ args' = [NoArgs EXCEPT !.op = "generate_plots", !.given = TRUE,
                                   !.show_progress = show_progress]
         /\ num_plots' = n
    /\ i' = 0
    /\ pc' = "loop"
    /\ UNCHANGED <<fig, ret, config, rng, seeds, datasets, twin, sink, out>>

\* generate_plots(None, show_progress): num_plots = get_plot_count(), whose
\* ValueError leaves generate_plots
CallGeneratePlotsDefault ==
    /\ pc = "idle"
    /\ \E env \in Environs, show_progress \in BOOLEAN :
         LET r == get_plot_count(env)
         IN  /\ r.ok => r.value <= MaxPlots
             /\ config' = env
             /\ args' = [NoArgs EXCEPT !.op = "generate_plots",
                                       !.show_progress = show_progress]
             /\ num_plots' = IF r.ok THEN r.value ELSE num_plots
             /\ ret' = IF r.ok THEN ret ELSE [kind |-> "InvalidLiteral", value |-> 0]
             /\ pc' = IF r.ok THEN "loop" ELSE "raised"
    /\ i' = 0
    /\ UNCHANGED <<fig, rng, seeds, datasets, twin, sink, out>>

\* the loop takes the next i of range(num_plots) and synthesizes its figure;
\* an error of generate_plot leaves the loop
LoopSynthesize ==
    /\ pc = "loop"
    /\ i < num_plots
    /\ LET r == generate_plot(PlotTypeAt(i), i, rng)
           t == generate_plot(PlotTypeAt(i), i, twin.rng)
       IN  /\ fig' = r.fig
           /\ rng' = r.rng
           /\ datasets' = IF r.raised THEN datasets ELSE Append(datasets, r.data)
           /\ twin' = IF t.raised THEN twin
                      ELSE [rng |-> t.rng, datasets |-> Append(twin.datasets, t.data)]
           /\ ret' = IF r.raised THEN [kind |-> "UnknownPlotType", value |-> 0] ELSE ret
           /\ pc' = IF r.raised THEN "raised" ELSE "show"
    /\ UNCHANGED <<args, num_plots, i, config, seeds, sink, out>>

\* fig.show()
LoopShow ==
    /\ pc = "show"
    /\ sink' = Append(sink, fig)
    /\ pc' = "progress"
    /\ UNCHANGED <<args, num_plots, i, fig, ret, config, rng, seeds, datasets, twin, out>>

\* the progress line after every 10th plot, then on to the next i
LoopProgress ==
    /\ pc = "progress"
    /\ out' = IF ProgressDue(args.show_progress, i) THEN Append(out, i + 1) ELSE out
    /\ i' = i + 1
    /\ pc' = "loop"
    /\ UNCHANGED <<args, num_plots, fig, ret, config, rng, seeds, datasets, twin, sink>>

\* range(num_plots) is exhausted: generate_plots returns None
LoopExit ==
    /\ pc = "loop"
    /\ i >= num_plots
    /\ ret' = [kind |-> "None", value |-> 0]
    /\ pc' = "done"
    /\ UNCHANGED <<args, num_plots, i, fig, config, rng, seeds, datasets, twin, sink, out>>

Next ==
    \/ Load
    \/ CallGetPlotCount
    \/ CallGeneratePlot
    \/ CallGeneratePlotsGiven
    \/ CallGeneratePlotsDefault
    \/ LoopSynthesize
    \/ LoopShow
    \/ LoopProgress
    \/ LoopExit

Spec == Init /\ [][Next]_vars

(* ============================== claims ================================= *)

InRun == args.op = "generate_plots" /\ pc \in {"loop", "show", "progress", "done"}

\* C1: generate_plots(N), N >= 0, synthesizes and displays exactly N figures
\* in increasing index order, the i-th with tag PLOT_TYPES[i mod 10] and
\* index i, each displayed before the next one is synthesized.
C1_RoundRobinInOrder ==
    (InRun /\ num_plots >= 0) =>
        /\ Len(sink) <= num_plots
        /\ \A k \in 1..Len(sink) :
              /\ sink[k].type = PLOT_TYPES[((k - 1) % 10) + 1]
              /\ sink[k].title.number = k
        /\ pc \in {"loop", "done"} => Len(datasets) = i /\ Len(sink) = i
        /\ pc = "show" =>
              /\ Len(datasets) = i + 1 /\ Len(sink) = i
              /\ fig.type = PLOT_TYPES[(i % 10) + 1]
              /\ fig.title.number = i + 1
        /\ pc = "progress" => Len(datasets) = i + 1 /\ Len(sink) = i + 1
        /\ pc = "done" => Len(sink) = num_plots /\ Len(datasets) = num_plots

C1_Witness ==
    /\ InRun /\ pc = "done" /\ num_plots = 25 /\ Len(sink) = 25
    /\ sink[10].type = "funnel" /\ sink[11].type = "scatter" /\ sink[25].type = "box"

CatalogTags == {"scatter", "line", "bar", "histogram", "box",
                "heatmap", "pie", "violin", "area", "funnel"}

\* C2: generate_plot(tag, i) raises the Unknown Plot Type error, returning no
\* figure, exactly when tag is not one of the 10 catalog tags; for a catalog
\* tag it returns a figure of that tag and index.
C2_UnknownIffNotInCatalog ==
    (args.op = "generate_plot" /\ pc \in {"returned", "raised"}) =>
        /\ pc = "raised" <=> args.plot_type \notin CatalogTags
        /\ pc = "raised" => ret.kind = "UnknownPlotType" /\ fig = NoFigure
        /\ pc = "returned" =>
              /\ ret.kind = "figure"
              /\ fig # NoFigure
              /\ fig.type = args.plot_type
              /\ fig.title.number = args.index + 1

C2_Witness ==
    /\ args.op = "generate_plot" /\ pc = "raised"
    /\ args.plot_type = "not-a-real-type" /\ args.index = 0
    /\ ret.kind = "UnknownPlotType"

\* C3: with show_progress, exactly floor(N/10) progress lines are emitted, the
\* k-th naming 10k plots, after the display of plot 10k and before plot 10k+1
\* is synthesized; without show_progress none is.
C3_ProgressEveryTenth ==
    InRun =>
        /\ args.show_progress =>
              /\ \A k \in 1..Len(out) : out[k] = 10 * k
              /\ Len(out) <= Len(sink) \div 10
              /\ Len(datasets) >= 1 => Len(out) >= (Len(datasets) - 1) \div 10
              /\ (pc = "done" /\ num_plots >= 0) => Len(out) = num_plots \div 10
        /\ ~args.show_progress => out = <<>>

C3_Witness ==
    /\ InRun /\ pc = "done" /\ args.show_progress
    /\ num_plots = 23 /\ out = <<10, 20>>

RECURSIVE Pow10(_)
Pow10(n) == IF n = 0 THEN 1 ELSE 10 * Pow10(n - 1)

\* C4: get_plot_count returns 4 when PLOT_COUNT is absent and n when it is the
\* base-10 string of the integer n, and changes no other state.
C4_CountResolver ==
    (args.op = "get_plot_count" /\ pc \in {"returned", "raised"}) =>
        /\ config = Absent => pc = "returned" /\ ret = [kind |-> "int", value |-> 4]
        /\ \A n \in (0 - Pow10(MaxEnvLen))..Pow10(MaxEnvLen) :
              (config.set /\ config.value = str(n)) =>
                  pc = "returned" /\ ret = [kind |-> "int", value |-> n]
        /\ fig = NoFigure /\ sink = <<>> /\ out = <<>> /\ datasets = <<>>
        /\ rng.pos = 0 /\ seeds = 1 /\ num_plots = 0 /\ i = 0

C4_Witness ==
    /\ args.op = "get_plot_count" /\ pc = "returned"
    /\ config = [set |-> TRUE, value |-> <<"7">>]
    /\ ret = [kind |-> "int", value |-> 7]

\* C5: whenever get_plot_count returns a value, the value is a positive
\* integer (>= 1).
C5_AlwaysPositive ==
    (args.op = "get_plot_count" /\ pc = "returned") => ret.value >= 1

\* C6: in scatter, line and bar figures series s goes to cell s mod 4 at
\* (row, col) = (cell div 2 + 1, cell mod 2 + 1), both in {1, 2}; scatter has
\* series 0..49, line and bar 0..3.
C6_GridCells ==
    \A f \in {fig} \cup Range(sink) :
        f.type \in {"scatter", "line", "bar"} =>
            /\ Len(f.series) = (IF f.type = "scatter" THEN 50 ELSE 4)
            /\ \A s \in 0..(Len(f.series) - 1) :
                  LET cell == s % 4
                  IN  /\ f.series[s + 1].row = (cell \div 2) + 1
                      /\ f.series[s + 1].col = (cell % 2) + 1
                      /\ f.series[s + 1].row \in {1, 2}
                      /\ f.series[s + 1].col \in {1, 2}

C6_Witness ==
    /\ fig.type = "scatter"
    /\ fig.series[6].row = 1 /\ fig.series[6].col = 2
    /\ fig.series[1].row = 1 /\ fig.series[1].col = 1
    /\ fig.series[50].row = 1 /\ fig.series[50].col = 2

SizeTable ==
    [t \in CatalogTags |->
        CASE t = "scatter"   -> [count |-> 50, shape |-> <<1000>>,     total |-> 50000]
          [] t = "line"      -> [count |-> 4,  shape |-> <<2000>>,     total |-> 8000]
          [] t = "bar"       -> [count |-> 4,  shape |-> <<50>>,       total |-> 200]
          [] t = "histogram" -> [count |-> 3,  shape |-> <<2000>>,     total |-> 6000]
          [] t = "box"       -> [count |-> 20, shape |-> <<200>>,      total |-> 4000]
          [] t = "heatmap"   -> [count |-> 1,  shape |-> <<100, 100>>, total |-> 10000]
          [] t = "pie"       -> [count |-> 1,  shape |-> <<25>>,       total |-> 25]
          [] t = "violin"    -> [count |-> 5,  shape |-> <<1000>>,     total |-> 5000]
          [] t = "area"      -> [count |-> 5,  shape |-> <<500>>,      total |-> 2500]
          [] t = "funnel"    -> [count |-> 1,  shape |-> <<15>>,       total |-> 15]]

\* C7: for every catalog tag and index, the number of series and the data
\* points per series equal the table, and their total equals the volume the
\* figure title states.
C7_DatasetSizes ==
    \A f \in {fig} \cup Range(sink) :
        f # NoFigure =>
            /\ f.type \in CatalogTags
            /\ Len(f.series) = SizeTable[f.type].count
            /\ \A k \in 1..Len(f.series) : f.series[k].shape = SizeTable[f.type].shape
            /\ TotalSize(f.series) = SizeTable[f.type].total
            /\ f.title.volume = SizeTable[f.type].total

C7_Witness ==
    /\ InRun /\ pc = "done" /\ Len(sink) = 10
    /\ sink[4].type = "histogram" /\ Len(sink[4].series) = 3
    /\ sink[6].type = "heatmap" /\ sink[6].series[1].shape = <<100, 100>>

\* C8: the seed is set exactly once, at load and before any dataset is
\* generated, and no operation resets it; two runs of the same calls from
\* the freshly seeded state draw every plot's data from the same positions
\* of the same stream.
C8_SeededOnceDeterministic ==
    /\ seeds <= 1
    /\ pc = "unloaded" => seeds = 0 /\ datasets = <<>> /\ twin.datasets = <<>>
    /\ pc # "unloaded" =>
          /\ seeds = 1
          /\ twin.rng = rng
          /\ twin.datasets = datasets
          /\ \A k \in 1..Len(datasets) :
                datasets[k].from = (IF k = 1 THEN 0
                                    ELSE datasets[k - 1].from + datasets[k - 1].n)

C8_Witness ==
    /\ InRun /\ pc = "done" /\ Len(datasets) = 12
    /\ twin.datasets = datasets
    /\ datasets[12].from > datasets[11].from

\* C9: generate_plots called without num_plots, PLOT_COUNT absent, generates
\* and displays exactly 2 plots.
C9_DefaultIsTwo ==
    (args.op = "generate_plots" /\ ~args.given /\ config = Absent /\ pc = "done") =>
        Len(sink) = 2 /\ Len(datasets) = 2

\* the loop's remaining work: iterations left, and steps left in this one
Remaining ==
    3 * (num_plots - i) + (CASE pc = "loop" -> 1
                             [] pc = "show" -> 0
                             [] pc = "progress" -> -1
                             [] OTHER -> 0)

C10_Inv ==
    args.op = "generate_plots" =>
        /\ ret.kind # "UnknownPlotType"
        /\ (InRun /\ num_plots >= 0) => i <= num_plots
        /\ (pc = "done" /\ num_plots >= 0) => i = num_plots /\ Len(sink) = num_plots
        /\ (InRun /\ pc # "done") => ENABLED Next
        /\ pc = "raised" =>
              /\ ret.kind = "InvalidLiteral"
              /\ sink = <<>> /\ datasets = <<>>
              /\ ~ENABLED Next

\* C10: in every generate_plots run the Unknown Plot Type error is never
\* raised and the loop ends after exactly N iterations (every step of an
\* unfinished run is followed by another and brings the end nearer); a call
\* that failed has left the loop and nothing is synthesized or displayed after.
C10_NoErrorAndTerminates ==
    /\ []C10_Inv
    /\ [][(InRun /\ pc # "done") => (InRun' /\ Remaining' < Remaining)]_vars

C10_Witness ==
    /\ InRun /\ pc = "done" /\ args.show_progress /\ ~args.given
    /\ num_plots = 22 /\ i = 22 /\ Len(sink) = 22

====
